---------------------------- MODULE Spec2Model ----------------------------
(***************************************************************************)
(* A model of pythonDependencies.py: the DependenciesManager class (import *)
(* extraction, standard-library classification, version query, manifest    *)
(* generation, check-and-install, update) and the command-line entry main. *)
(*                                                                         *)
(* Text is modelled as TLA+ strings, read character by character with Len  *)
(* and SubSeq, so that formatting a specifier line and parsing it back are *)
(* two different computations.  A Python value that may be None is a       *)
(* sequence: <<>> is None and <<v>> is the value v.                        *)
(***************************************************************************)
EXTENDS Integers, Sequences, FiniteSets, TLC

VARIABLES
    project,    \* the files below project_dir: a set of [dir, name, content]
    interp,     \* the interpreter: builtin_module_names and find_spec
    pip,        \* the installed-package database: name -> lines of `pip show`
    manifest,   \* the requirements file: [exists, lines]
    ops,        \* the records of the operations run so far, in order
    args,       \* the parsed command line of main
    pc          \* the position of main ("lib": methods called as a library)

vars == <<project, interp, pip, manifest, ops, args, pc>>

\* ------------------------------------------------------------------ bounds

MaxFiles == 2       \* files in a project
MaxOps == 1         \* operations called on one manager
MaxStmts == 2       \* statements in the body of a generated source file
MaxLevel == 1       \* relative-import level of a generated ImportFrom

\* ------------------------------------------------------------ Python text

None == <<>>
Some(v) == <<v>>

Whitespace == {" ", "\t"}

CharAt(s, i) == SubSeq(s, i, i)

\* str.startswith
StartsWith(s, prefix) ==
    /\ Len(prefix) <= Len(s)
    /\ SubSeq(s, 1, Len(prefix)) = prefix

\* str.endswith
EndsWith(s, suffix) ==
    /\ Len(suffix) <= Len(s)
    /\ SubSeq(s, Len(s) - Len(suffix) + 1, Len(s)) = suffix

\* `sub in s`
Contains(s, sub) ==
    \E i \in 1..(Len(s) - Len(sub) + 1) : SubSeq(s, i, i + Len(sub) - 1) = sub

RECURSIVE LStrip(_)
LStrip(s) ==
    IF Len(s) > 0 /\ CharAt(s, 1) \in Whitespace
    THEN LStrip(SubSeq(s, 2, Len(s)))
    ELSE s

RECURSIVE RStrip(_)
RStrip(s) ==
    IF Len(s) > 0 /\ CharAt(s, Len(s)) \in Whitespace
    THEN RStrip(SubSeq(s, 1, Len(s) - 1))
    ELSE s

\* str.strip()
Strip(s) == LStrip(RStrip(s))

\* The scan of a split: the index of the first character of s, at or after
\* i, that is in seps; Len(s) + 1 when there is none.
RECURSIVE FirstSep(_, _, _)
FirstSep(s, seps, i) ==
    IF i > Len(s) THEN Len(s) + 1
    ELSE IF CharAt(s, i) \in seps THEN i
    ELSE FirstSep(s, seps, i + 1)

\* s.split(sep)[0] and re.split('[seps]', s)[0]
SplitHead(s, seps) == SubSeq(s, 1, FirstSep(s, seps, 1) - 1)

\* s.split(sep, 1)[1], for s that holds a separator
SplitRest(s, seps) == SubSeq(s, FirstSep(s, seps, 1) + 1, Len(s))

\* ------------------------------------------------------------------ tables

MODULE_TO_PACKAGE ==
    { <<"bs4", "beautifulsoup4">>,
      <<"requests_oauthlib", "requests-oauthlib">>,
      <<"flask_cors", "Flask-Cors">>,
      <<"flask_sqlalchemy", "Flask-SQLAlchemy">>,
      <<"flask_login", "Flask-Login">>,
      <<"flask_wtf", "Flask-WTF">>,
      <<"flask_migrate", "Flask-Migrate">>,
      <<"flask_restful", "Flask-RESTful">>,
      <<"matplotlib.pyplot", "matplotlib">>,
      <<"sklearn", "scikit-learn">>,
      <<"joblib", "scikit-learn">>,
      <<"tensorflow.keras", "tensorflow">>,
      <<"dotenv", "python-dotenv">>,
      <<"yaml", "pyyaml">>,
      <<"crypto", "pycryptodome">>,
      <<"dateutil", "python-dateutil">>,
      <<"sqlalchemy", "SQLAlchemy">>,
      <<"psycopg2", "psycopg2-binary">>,
      <<"telegram", "python-telegram-bot">>,
      <<"discord", "discord.py">>,
      <<"firebase_admin", "firebase-admin">>,
      <<"tkinter", "tk">>,
      <<"PIL", "pillow">>,
      <<"cv2", "opencv-python">>,
      <<"skimage", "scikit-image">>,
      <<"unittest", "unittest2">>,
      <<"docx", "python-docx">>,
      <<"pptx", "python-pptx">> }

AliasKeys == { e[1] : e \in MODULE_TO_PACKAGE }

stdlib_modules ==
    { "abc", "argparse", "array", "ast", "asyncio", "base64", "builtins", "calendar",
      "collections", "concurrent", "contextlib", "copy", "csv", "ctypes", "datetime",
      "decimal", "difflib", "email", "enum", "fileinput", "fnmatch", "fractions",
      "functools", "gc", "getopt", "getpass", "glob", "hashlib", "heapq", "hmac",
      "html", "http", "importlib", "inspect", "io", "itertools", "json", "logging",
      "math", "mimetypes", "multiprocessing", "netrc", "numbers", "operator", "os",
      "pathlib", "pickle", "platform", "pprint", "queue", "random", "re", "readline",
      "reprlib", "select", "shlex", "shutil", "signal", "socket", "sqlite3",
      "statistics", "string", "struct", "subprocess", "sys", "tempfile", "threading",
      "time", "timeit", "tkinter", "token", "tokenize", "traceback", "typing",
      "unittest", "urllib", "uuid", "venv", "warnings", "wave", "weakref",
      "webbrowser", "xml", "xmlrpc", "zipfile", "zipimport", "zlib" }

IgnoredDirs == {".git", ".venv", "venv", "__pycache__", ".idea", ".vscode"}

ScriptName == "pythonDependencies.py"

\* -------------------------------------------------------- syntax trees

\* The nodes of a parsed file that the extractor tells apart: Import (its
\* aliases' dotted names), ImportFrom (module or None, level), and any other
\* node, which has child nodes.
ImportNode(names) == [type |-> "Import", names |-> names]
ImportFromNode(module, level) == [type |-> "ImportFrom", module |-> module, level |-> level]
OtherNode(body) == [type |-> "Other", body |-> body]

Parsed(body) == [kind |-> "ast", body |-> body]
SyntaxErrorFile == [kind |-> "syntax_error"]
UnreadableFile == [kind |-> "unreadable"]

Range(seq) == { seq[i] : i \in DOMAIN seq }

\* ast.walk: the node and all its descendants
RECURSIVE Walk(_)
Walk(node) ==
    {node} \cup
    (IF node.type = "Other"
     THEN UNION { Walk(node.body[i]) : i \in DOMAIN node.body }
     ELSE {})

WalkTopLevelOnly(tree) == {tree} \cup Range(tree.body)

WalkTree(tree) == Walk(tree)

\* the names one node adds to `imports`
NodeImportsAnyLevel(node) ==
    IF node.type = "Import"
    THEN { SplitHead(node.names[i], {"."}) : i \in DOMAIN node.names }
    ELSE IF node.type = "ImportFrom"
    THEN IF node.module # None
         THEN { SplitHead(node.module[1], {"."}) }
         ELSE {}
    ELSE {}

NodeImports(node) ==
    IF node.type = "Import"
    THEN { SplitHead(node.names[i], {"."}) : i \in DOMAIN node.names }
    ELSE IF node.type = "ImportFrom"
    THEN IF node.level = 0 /\ node.module # None /\ node.module[1] # ""
         THEN { SplitHead(node.module[1], {"."}) }
         ELSE {}
    ELSE {}

extract_imports_from_file(content) ==
    IF content.kind # "ast"
    THEN {}
    ELSE LET tree == OtherNode(content.body)
             imports == UNION { NodeImports(n) : n \in WalkTree(tree) }
         IN  { imp \in imports : imp # "" }


\* --------------------------------------------------- the project's files

ProjectName == "proj"

\* a file of the project: the directories from project_dir down to it, its
\* name, and what parsing it gives
File(dir, name, content) == [dir |-> dir, name |-> name, content |-> content]

\* os.path.exists(os.path.join(self.project_dir, name))
ExistsAtRoot(proj, name) == \E f \in proj : f.dir = <<>> /\ f.name = name

\* the directory project_dir/name holds a file called inner
ExistsInRootDir(proj, name, inner) ==
    \E f \in proj : f.dir = <<name>> /\ f.name = inner

\* os.walk with the ignored directories pruned, the .py filter and the
\* skip of the script itself: the files generate_requirements analyses
AnalysedFiles(proj) ==
    { f \in proj :
        /\ \A i \in DOMAIN f.dir : f.dir[i] \notin IgnoredDirs
        /\ EndsWith(f.name, ".py")
        /\ f.name # ScriptName }

\* ------------------------------------------------------- the interpreter

NoSpec == [kind |-> "none"]
LookupRaises == [kind |-> "raise"]
SpecAt(origin) == [kind |-> "spec", origin |-> origin]

\* importlib.util.find_spec(module_name)
find_spec(ip, module_name) ==
    IF module_name \in DOMAIN ip.specs THEN ip.specs[module_name] ELSE NoSpec

IsLocal(proj, module_name) ==
    \/ ExistsAtRoot(proj, module_name \o ".py")
    \/ ExistsInRootDir(proj, module_name, "__init__.py")

is_standard_library(proj, ip, module_name) ==
    IF module_name \in ip.builtin_module_names THEN TRUE
    ELSE IF IsLocal(proj, module_name) THEN TRUE
    ELSE LET spec == find_spec(ip, module_name) IN
         IF spec.kind = "none" THEN FALSE
         ELSE IF /\ spec.kind = "spec"
                 /\ spec.origin # ""
                 /\ ~Contains(spec.origin, "site-packages")
                 /\ (Contains(spec.origin, "lib") \/ Contains(spec.origin, "lib-dynload"))
         THEN TRUE
         ELSE module_name \in stdlib_modules

\* --------------------------------------------------- the package manager

\* `pip show package_name`: exit status and the lines of its output
PipShow(db, package_name) ==
    IF package_name \in DOMAIN db
    THEN [returncode |-> 0, stdout |-> db[package_name]]
    ELSE [returncode |-> 1, stdout |-> <<>>]

\* the loop over result.stdout.splitlines()
RECURSIVE VersionField(_, _)
VersionField(lines, i) ==
    IF i > Len(lines) THEN None
    ELSE IF StartsWith(lines[i], "Version:")
         THEN Some(Strip(SplitRest(lines[i], {":"})))
         ELSE VersionField(lines, i + 1)

get_package_version(db, package_name) ==
    LET result == PipShow(db, package_name) IN
    IF result.returncode # 0 THEN None
    ELSE VersionField(result.stdout, 1)

\* `if version:`
Truthy(version) == version # None /\ version[1] # ""

\* the version a successful install or upgrade leaves installed
LatestVersion == "3.0"

ShowOutput(name, version) == <<"Name: " \o name, "Version: " \o version>>

\* the database after `pip install` of name exited with status `exit`
AfterInstall(db, name, exit) ==
    IF exit # 0 THEN db
    ELSE (name :> ShowOutput(name, LatestVersion)) @@ db

Call(cmd, arg) == [cmd |-> cmd, arg |-> arg]

\* ------------------------------------------------------------ the manifest

NoManifest == [exists |-> FALSE, lines |-> <<>>]
ManifestOf(lines) == [exists |-> TRUE, lines |-> lines]

\* re.sub(r'#.*$', '', req).strip()
StripComment(req) == Strip(SplitHead(req, {"#"}))

BaseNameNoGreater(package) == Strip(SplitHead(package, {"=", "<", "~", "!"}))

\* re.split(r'[=<>~!]', package)[0].strip()
BaseName(package) == Strip(SplitHead(package, {"=", "<", ">", "~", "!"}))

\* the loop that fills `packages` in check_and_install_dependencies
RECURSIVE ReadPackages(_, _)
ReadPackages(lines, i) ==
    IF i > Len(lines) THEN <<>>
    ELSE LET req == StripComment(lines[i]) IN
         (IF req # "" THEN <<req>> ELSE <<>>) \o ReadPackages(lines, i + 1)

\* self.module_to_package.get(module, module)
ModuleToPackageIdentity(module) == module

ModuleToPackage(module) ==
    IF module \in AliasKeys
    THEN (CHOOSE e \in MODULE_TO_PACKAGE : e[1] = module)[2]
    ELSE module


\* ------------------------------------------------------------- sorted()

\* the characters of names, in code-point order
Alphabet == "-.0123456789ABCDEFGHIJKLMNOPQRSTUVWXYZ_abcdefghijklmnopqrstuvwxyz"

\* ord(c), up to a shift that keeps the order
OrdTable ==
    [ c \in { CharAt(Alphabet, i) : i \in 1..Len(Alphabet) } |->
        CHOOSE i \in 1..Len(Alphabet) : CharAt(Alphabet, i) = c ]

Ord(c) == OrdTable[c]

\* a <= b in Python's string order
RECURSIVE StrLeq(_, _)
StrLeq(a, b) ==
    IF a = "" THEN TRUE
    ELSE IF b = "" THEN FALSE
    ELSE IF CharAt(a, 1) = CharAt(b, 1)
         THEN StrLeq(SubSeq(a, 2, Len(a)), SubSeq(b, 2, Len(b)))
         ELSE Ord(CharAt(a, 1)) < Ord(CharAt(b, 1))

\* sorted(names)
RECURSIVE Sorted(_)
Sorted(names) ==
    IF names = {} THEN <<>>
    ELSE LET least == CHOOSE x \in names : \A y \in names : StrLeq(x, y)
         IN  <<least>> \o Sorted(names \ {least})

\* ------------------------------------------------ generate_requirements

\* one pass of the loop over sorted(third_party): the specifier line
RequirementLine(db, module) ==
    LET package_name == ModuleToPackage(module)
        version == get_package_version(db, package_name)
    IN  IF Truthy(version)
        THEN package_name \o ">=" \o version[1]
        ELSE package_name

\* the two early returns (no file analysed, no third-party import)
EarlyReturn(file_count, third_party) ==
    \/ file_count = 0
    \/ third_party = {}

\* the manifest is opened for writing after both early returns
WritesManifestBeforeReturns(early) == TRUE

WritesManifest(early) == ~early

HeaderLines(now) ==
    << "# Automatically generated by pythonDependencies.py",
       "# Date: " \o now,
       "# Project: " \o ProjectName,
       "" >>

WarningLines ==
    << "# WARNING: The following packages were detected in your code but are not installed.",
       "# Install them and regenerate this file to include version numbers.",
       "# You can install all dependencies with: pip install -r requirements.txt",
       "" >>

\* the loop over the files of the walk: all_imports.update(file_imports) for
\* each file, whatever extract_imports_from_file made of it
ScanImportsStopsAtFailure(files) ==
    IF \E f \in files : f.content.kind # "ast"
    THEN {}
    ELSE UNION { extract_imports_from_file(f.content) : f \in files }

ScanImports(files) ==
    UNION { extract_imports_from_file(f.content) : f \in files }

\* [result, manifest, record]: what the call returns, the manifest it
\* leaves, and the record of what it did
generate_requirements(proj, ip, db, mf, now, caller) ==
    LET files == AnalysedFiles(proj)
        file_count == Cardinality(files)
        all_imports == ScanImports(files)
        third_party == { imp \in all_imports : ~is_standard_library(proj, ip, imp) }
        early == EarlyReturn(file_count, third_party)
        writes == WritesManifest(early)
        modules == IF third_party = {} THEN <<>> ELSE Sorted(third_party)
        requirements == [i \in 1..Len(modules) |-> RequirementLine(db, modules[i])]
        not_installed_packages ==
            SelectSeq([i \in 1..Len(modules) |-> ModuleToPackage(modules[i])],
                      LAMBDA p : ~Truthy(get_package_version(db, p)))
        written ==
            HeaderLines(now)
            \o (IF not_installed_packages # <<>> THEN WarningLines ELSE <<>>)
            \o requirements
        result == ~early
    IN  [ result |-> result,
          manifest |-> IF writes THEN ManifestOf(written) ELSE mf,
          record |->
            [ op |-> "generate_requirements",
              caller |-> caller,
              result |-> result,
              file_count |-> file_count,
              all_imports |-> all_imports,
              third_party |-> third_party,
              requirements |-> IF result THEN requirements ELSE <<>>,
              not_installed_packages |-> IF result THEN not_installed_packages ELSE <<>>,
              calls |-> IF result
                        THEN [i \in 1..Len(modules) |->
                                Call("show", ModuleToPackage(modules[i]))]
                        ELSE <<>>,
              prompted |-> FALSE ] ]


\* ------------------------------------------- check_and_install_dependencies

\* the exit statuses of a run of n commands: all succeed, exactly one fails
\* (any one of them), or all fail
ExitPatterns(n) ==
    { [i \in 1..n |-> 0], [i \in 1..n |-> 1] }
    \cup { [i \in 1..n |-> IF i = failing THEN 1 ELSE 0] : failing \in 1..n }

\* the loop over `packages` that fills missing_packages
RECURSIVE MissingPackages(_, _, _)
MissingPackages(db, packages, i) ==
    IF i > Len(packages) THEN <<>>
    ELSE LET base_package == BaseName(packages[i])
             version == get_package_version(db, base_package)
         IN  (IF Truthy(version) THEN <<>> ELSE <<packages[i]>>)
             \o MissingPackages(db, packages, i + 1)

\* A loop that runs one package-manager command per item; exits[i] is the
\* exit status of the command for items[i].  The indices of the items the
\* loop ran a command for: a non-zero exit is caught inside the loop body.
RECURSIVE RunUntilFailure(_, _, _)
RunUntilFailure(items, exits, i) ==
    IF i > Len(items) THEN <<>>
    ELSE IF exits[i] # 0 THEN <<i>>
    ELSE <<i>> \o RunUntilFailure(items, exits, i + 1)

RECURSIVE RunEach(_, _, _)
RunEach(items, exits, i) ==
    IF i > Len(items) THEN <<>>
    ELSE <<i>> \o RunEach(items, exits, i + 1)

\* the database after the commands of `ran`, in order
RECURSIVE AfterCommands(_, _, _, _, _)
AfterCommands(db, items, exits, ran, k) ==
    IF k > Len(ran) THEN db
    ELSE AfterCommands(AfterInstall(db, BaseName(items[ran[k]]), exits[ran[k]]),
                       items, exits, ran, k + 1)

\* `success` after the install loop: False once any install failed
InstallSuccessIgnored(exits, ran) == TRUE

InstallSuccess(exits, ran) == \A k \in DOMAIN ran : exits[ran[k]] = 0

\* the first lines of check and of update: the manifest must exist
ManifestFoundUnchecked(mf) == TRUE

ManifestFound(mf) == mf.exists

check_and_install_dependencies(db, mf, auto_install, exits, caller) ==
    LET packages == ReadPackages(mf.lines, 1)
        missing_packages == MissingPackages(db, packages, 1)
        shows == [i \in 1..Len(packages) |-> Call("show", BaseName(packages[i]))]
        ran == RunEach(missing_packages, exits, 1)
        installs == [k \in 1..Len(ran) |-> Call("install", missing_packages[ran[k]])]
        base == [ op |-> "check_and_install_dependencies",
                  caller |-> caller,
                  auto_install |-> auto_install,
                  found |-> TRUE,
                  prompted |-> FALSE ]
    IN  IF ~ManifestFound(mf)
        THEN [ result |-> FALSE, pip |-> db, manifest |-> mf,
               record |-> [base EXCEPT !.found = FALSE] @@
                   [result |-> FALSE, packages |-> <<>>, missing_packages |-> <<>>,
                    calls |-> <<>>, exits |-> <<>>] ]
        ELSE IF packages = <<>>
        THEN [ result |-> TRUE, pip |-> db, manifest |-> mf,
               record |-> base @@
                   [result |-> TRUE, packages |-> <<>>, missing_packages |-> <<>>,
                    calls |-> <<>>, exits |-> <<>>] ]
        ELSE IF missing_packages = <<>>
        THEN [ result |-> TRUE, pip |-> db, manifest |-> mf,
               record |-> base @@
                   [result |-> TRUE, packages |-> packages, missing_packages |-> <<>>,
                    calls |-> shows, exits |-> <<>>] ]
        ELSE IF ~auto_install
        THEN [ result |-> FALSE, pip |-> db, manifest |-> mf,
               record |-> base @@
                   [result |-> FALSE, packages |-> packages,
                    missing_packages |-> missing_packages,
                    calls |-> shows, exits |-> <<>>] ]
        ELSE LET success == InstallSuccess(exits, ran) IN
             [ result |-> success,
               pip |-> AfterCommands(db, missing_packages, exits, ran, 1),
               manifest |-> mf,
               record |-> base @@
                   [result |-> success, packages |-> packages,
                    missing_packages |-> missing_packages,
                    calls |-> shows \o installs,
                    exits |-> [k \in 1..Len(ran) |-> exits[ran[k]]]] ]

\* ------------------------------------------------------ update_dependencies

\* the loop that fills `packages` in update_dependencies
RECURSIVE ReadPackageNames(_, _)
ReadPackageNames(lines, i) ==
    IF i > Len(lines) THEN <<>>
    ELSE LET req == StripComment(lines[i]) IN
         (IF req # "" THEN <<BaseName(req)>> ELSE <<>>)
         \o ReadPackageNames(lines, i + 1)

UpperCase == "ABCDEFGHIJKLMNOPQRSTUVWXYZ"
LowerCase == "abcdefghijklmnopqrstuvwxyz"

LowerTable ==
    [ c \in { CharAt(UpperCase, i) : i \in 1..Len(UpperCase) } |->
        CharAt(LowerCase, CHOOSE i \in 1..Len(UpperCase) : CharAt(UpperCase, i) = c) ]

LowerChar(c) == IF c \in DOMAIN LowerTable THEN LowerTable[c] ELSE c

\* str.lower()
RECURSIVE Lower(_)
Lower(s) ==
    IF s = "" THEN ""
    ELSE LowerChar(CharAt(s, 1)) \o Lower(SubSeq(s, 2, Len(s)))

\* regenerate.lower() in ['y', 'yes']
Confirms(regenerate) == Lower(regenerate) \in {"y", "yes"}

\* [result, pip, manifest, record, nested]: nested is None, or the record
\* of the generate_requirements call made when the user confirms
update_dependencies(proj, ip, db, mf, exits, regenerate, now, caller) ==
    LET packages == ReadPackageNames(mf.lines, 1)
        ran == RunEach(packages, exits, 1)
        upgrades == [k \in 1..Len(ran) |-> Call("upgrade", packages[ran[k]])]
        upgraded == AfterCommands(db, packages, exits, ran, 1)
        gen == generate_requirements(proj, ip, upgraded, mf, now, "update_dependencies")
        base == [ op |-> "update_dependencies",
                  caller |-> caller,
                  found |-> TRUE,
                  prompted |-> FALSE ]
    IN  IF ~ManifestFound(mf)
        THEN [ result |-> FALSE, pip |-> db, manifest |-> mf, nested |-> None,
               record |-> [base EXCEPT !.found = FALSE] @@
                   [result |-> FALSE, packages |-> <<>>, calls |-> <<>>, exits |-> <<>>] ]
        ELSE IF packages = <<>>
        THEN [ result |-> TRUE, pip |-> db, manifest |-> mf, nested |-> None,
               record |-> base @@
                   [result |-> TRUE, packages |-> <<>>, calls |-> <<>>, exits |-> <<>>] ]
        ELSE IF Confirms(regenerate)
        THEN [ result |-> gen.result, pip |-> upgraded, manifest |-> gen.manifest,
               nested |-> Some(gen.record),
               record |-> [base EXCEPT !.prompted = TRUE] @@
                   [result |-> gen.result, packages |-> packages, calls |-> upgrades,
                    exits |-> [k \in 1..Len(ran) |-> exits[ran[k]]]] ]
        ELSE [ result |-> TRUE, pip |-> upgraded, manifest |-> mf, nested |-> None,
               record |-> [base EXCEPT !.prompted = TRUE] @@
                   [result |-> TRUE, packages |-> packages, calls |-> upgrades,
                    exits |-> [k \in 1..Len(ran) |-> exits[ran[k]]]] ]


\* ------------------------------------------------------------ sample inputs

AppFile ==
    File(<<>>, "app.py",
         Parsed(<< ImportNode(<<"bs4">>),
                   ImportNode(<<"os">>),
                   ImportFromNode(Some("utils.text"), 0) >>))

ModelFile ==
    File(<<"ml">>, "model.py",
         Parsed(<< ImportFromNode(Some("sklearn.svm"), 0),
                   OtherNode(<< ImportNode(<<"joblib", "numpy.linalg">>) >>),
                   ImportFromNode(Some("helpers"), 1) >>))

UtilsFile ==
    File(<<>>, "utils.py",
         Parsed(<< ImportNode(<<"json">>),
                   OtherNode(<< OtherNode(<< ImportNode(<<"tkinter">>) >>) >>) >>))

CliFile ==
    File(<<"tools">>, "cli.py",
         Parsed(<< ImportNode(<<"sys">>),
                   ImportFromNode(Some("json"), 0),
                   ImportFromNode(None, 1),
                   ImportNode(<<"readline">>) >>))

BrokenFile == File(<<>>, "broken.py", SyntaxErrorFile)

VenvFile ==
    File(<<"venv", "lib">>, "six.py", Parsed(<< ImportNode(<<"flask">>) >>))

SelfFile ==
    File(<<>>, ScriptName, Parsed(<< ImportNode(<<"requests">>) >>))

FileUniverse ==
    {AppFile, ModelFile, UtilsFile, CliFile, BrokenFile, VenvFile, SelfFile}

Projects == { p \in SUBSET FileUniverse : Cardinality(p) <= MaxFiles }

PosixInterp ==
    [ builtin_module_names |-> {"sys", "builtins", "time"},
      specs |->
        [ m \in {"os", "json", "readline", "bs4", "numpy", "joblib"} |->
            CASE m = "os" -> SpecAt("/usr/lib/python3.11/os.py")
              [] m = "json" -> SpecAt("/usr/lib/python3.11/json/__init__.py")
              [] m = "readline" ->
                   SpecAt("/usr/lib/python3.11/lib-dynload/readline.so")
              [] m = "bs4" ->
                   SpecAt("/usr/lib/python3.11/site-packages/bs4/__init__.py")
              [] m = "numpy" ->
                   SpecAt("/home/u/.venv/lib/site-packages/numpy/__init__.py")
              [] m = "joblib" -> LookupRaises ] ]

WindowsInterp ==
    [ builtin_module_names |-> {"sys", "builtins", "time", "zlib"},
      specs |->
        [ m \in {"os", "json", "tkinter", "bs4", "sklearn"} |->
            CASE m = "os" -> SpecAt("frozen")
              [] m = "json" -> SpecAt("C:/Python311/Lib/json/__init__.py")
              [] m = "tkinter" -> SpecAt("C:/Python311/Lib/tkinter/__init__.py")
              [] m = "bs4" ->
                   SpecAt("C:/Python311/Lib/site-packages/bs4/__init__.py")
              [] m = "sklearn" -> SpecAt("") ] ]

Interpreters == {PosixInterp, WindowsInterp}

PartialDb ==
    ("beautifulsoup4" :> << "Name: beautifulsoup4", "Version: 4.12.3",
                            "Summary: Screen-scraping library" >>)
    @@ ("scikit-learn" :> << "Name: scikit-learn", "Summary: no version field" >>)
    @@ ("requests" :> << "Name: requests", "Version:  2.31.0 " >>)

FullDb ==
    ("beautifulsoup4" :> ShowOutput("beautifulsoup4", "4.12.3"))
    @@ ("numpy" :> ShowOutput("numpy", "1.26.4"))
    @@ ("scikit-learn" :> ShowOutput("scikit-learn", "1.4.2"))
    @@ ("tk" :> ShowOutput("tk", "0.1.0"))
    @@ ("readline" :> ShowOutput("readline", "6.2.4"))
    @@ ("utils" :> ShowOutput("utils", "1.0"))

Databases == {PartialDb, FullDb}

HandWritten ==
    ManifestOf(<< "# hand-written",
                  "",
                  "requests==2.31.0  # pinned",
                  "nonexistent-package-xyz" >>)

CommentsOnly == ManifestOf(<< "# nothing yet", "   " >>)

Manifests == {NoManifest, HandWritten, CommentsOnly}

Timestamps == {"2024-05-01 12:00:00"}

Answers == {"Yes", "n"}


\* ------------------------------------------- the methods called as a library

NoArgs == [generate |-> FALSE, check |-> FALSE, update |-> FALSE]

\* the calls made so far, not counting the one update makes itself
Calls == Cardinality({ i \in DOMAIN ops : ops[i].caller # "update_dependencies" })

\* the manifest an earlier run of generate_requirements left, if it wrote one
Generated(proj, ip, db) ==
    { generate_requirements(proj, ip, db, NoManifest, now, "api").manifest :
        now \in Timestamps }

Init ==
    /\ project \in Projects
    /\ interp \in Interpreters
    /\ pip \in Databases
    /\ manifest \in Manifests \cup Generated(project, interp, pip)
    /\ ops = <<>>
    /\ args = NoArgs
    /\ pc = "lib"

\* the state after one call of generate_requirements by `caller`
DoGenerate(caller) ==
    \E now \in Timestamps :
        \E r \in {generate_requirements(project, interp, pip, manifest, now, caller)} :
        /\ manifest' = r.manifest
        /\ ops' = Append(ops, r.record)
        /\ UNCHANGED <<project, interp, pip>>

\* the state after one call of check_and_install_dependencies by `caller`
DoCheck(caller, auto_install) ==
    \E n \in { IF manifest.exists /\ auto_install
                 THEN Len(MissingPackages(pip, ReadPackages(manifest.lines, 1), 1))
                 ELSE 0 } :
        \E exits \in ExitPatterns(n) :
            \E r \in {check_and_install_dependencies(pip, manifest, auto_install,
                                                     exits, caller)} :
            /\ pip' = r.pip
            /\ manifest' = r.manifest
            /\ ops' = Append(ops, r.record)
            /\ UNCHANGED <<project, interp>>

\* the state after one call of update_dependencies by `caller`
DoUpdate(caller) ==
    \E n \in { IF manifest.exists THEN Len(ReadPackageNames(manifest.lines, 1)) ELSE 0 } :
        \E exits \in ExitPatterns(n), regenerate \in Answers, now \in Timestamps :
            \E r \in {update_dependencies(project, interp, pip, manifest, exits,
                                          regenerate, now, caller)} :
            /\ pip' = r.pip
            /\ manifest' = r.manifest
            /\ ops' = Append(ops, r.record) \o r.nested
            /\ UNCHANGED <<project, interp>>

Generate ==
    /\ pc = "lib"
    /\ Calls < MaxOps
    /\ DoGenerate("api")
    /\ UNCHANGED <<args, pc>>

Check ==
    /\ pc = "lib"
    /\ Calls < MaxOps
    /\ \E auto_install \in BOOLEAN : DoCheck("api", auto_install)
    /\ UNCHANGED <<args, pc>>

Update ==
    /\ pc = "lib"
    /\ Calls < MaxOps
    /\ DoUpdate("api")
    /\ UNCHANGED <<args, pc>>

Next == Generate \/ Check \/ Update

Spec == Init /\ [][Next]_vars


\* --------------------------------------------------------------------- main

Flags == [generate : BOOLEAN, check : BOOLEAN, update : BOOLEAN]

MainProjects == { p \in Projects : Cardinality(p) <= 1 } \cup { {AppFile, ModelFile} }

MainInit ==
    /\ project \in MainProjects
    /\ interp \in Interpreters
    /\ pip \in Databases
    /\ manifest \in {NoManifest, HandWritten}
    /\ ops = <<>>
    /\ args \in Flags
    /\ pc = "start"

\* `if not any([args.generate, args.check, args.update])`: print the help
\* and return
MainHelp ==
    /\ pc = "start"
    /\ pc' = IF ~(args.generate \/ args.check \/ args.update) THEN "done" ELSE "generate"
    /\ UNCHANGED <<project, interp, pip, manifest, ops, args>>

\* `if args.generate: manager.generate_requirements()`
MainGenerate ==
    /\ pc = "generate"
    /\ IF args.generate
       THEN DoGenerate("main")
       ELSE UNCHANGED <<project, interp, pip, manifest, ops>>
    /\ pc' = "check"
    /\ UNCHANGED args

MainCheckUnlessGenerateFailed ==
    /\ pc = "check"
    /\ IF args.check /\ (ops = <<>> \/ ops[Len(ops)].result)
       THEN DoCheck("main", TRUE)
       ELSE UNCHANGED <<project, interp, pip, manifest, ops>>
    /\ pc' = "update"
    /\ UNCHANGED args

\* `if args.check: manager.check_and_install_dependencies()`
MainCheck ==
    /\ pc = "check"
    /\ IF args.check
       THEN DoCheck("main", TRUE)
       ELSE UNCHANGED <<project, interp, pip, manifest, ops>>
    /\ pc' = "update"
    /\ UNCHANGED args

\* `if args.update: manager.update_dependencies()`
MainUpdate ==
    /\ pc = "update"
    /\ IF args.update
       THEN DoUpdate("main")
       ELSE UNCHANGED <<project, interp, pip, manifest, ops>>
    /\ pc' = "done"
    /\ UNCHANGED args

MainNext == MainHelp \/ MainGenerate \/ MainCheck \/ MainUpdate

MainSpec == MainInit /\ [][MainNext]_vars


\* ------------------------------------------- extract_imports_from_file alone

DottedNames == {"os", "os.path", "a.b.c"}

NamePairs == { <<"os", "a.b.c">>, <<"os.path", "os">>, <<"a.b.c", "a.b.c">> }

SimpleStatements ==
    { ImportNode(<<n>>) : n \in DottedNames }
    \cup { ImportNode(names) : names \in NamePairs }
    \cup { ImportFromNode(Some(n), level) : n \in DottedNames, level \in 0..MaxLevel }
    \cup { ImportFromNode(None, level) : level \in 1..MaxLevel }
    \cup { OtherNode(<<>>) }

Statements ==
    SimpleStatements
    \cup { OtherNode(<<st>>) : st \in SimpleStatements }
    \cup { OtherNode(<< OtherNode(<< ImportNode(<<"a.b.c">>),
                                     ImportFromNode(Some("os.path"), 0) >>) >>) }

Bodies == UNION { [1..n -> Statements] : n \in 0..MaxStmts }

SourceFiles == { Parsed(body) : body \in Bodies } \cup {SyntaxErrorFile, UnreadableFile}

ExtractInit ==
    /\ \E content \in SourceFiles : project = {File(<<>>, "module.py", content)}
    /\ interp = PosixInterp
    /\ pip = PartialDb
    /\ manifest = NoManifest
    /\ ops = <<>>
    /\ args = NoArgs
    /\ pc = "lib"

\* one call of extract_imports_from_file on a file of the project
Extract ==
    /\ pc = "lib"
    /\ Calls < MaxOps
    /\ \E f \in project :
         ops' = Append(ops, [ op |-> "extract_imports_from_file",
                              caller |-> "api",
                              file |-> f,
                              result |-> extract_imports_from_file(f.content) ])
    /\ UNCHANGED <<project, interp, pip, manifest, args, pc>>

ExtractSpec == ExtractInit /\ [][Extract]_vars

\* --------------------------------------------------- is_standard_library alone

ClassifyModules == {"sys", "os", "readline", "tkinter", "bs4", "utils"}

Origins ==
    { "", "frozen",
      "/usr/lib/python3.11/os.py",
      "/usr/lib/python3.11/lib-dynload/readline.so",
      "/usr/lib/python3.11/site-packages/bs4/__init__.py",
      "C:/Python311/Lib/tkinter/__init__.py" }

Lookups == {NoSpec, LookupRaises} \cup { SpecAt(origin) : origin \in Origins }

ClassifyInit ==
    /\ \E m \in ClassifyModules :
         /\ project \in { {},
                          {File(<<>>, m \o ".py", Parsed(<<>>))},
                          {File(<<m>>, "__init__.py", Parsed(<<>>))},
                          {File(<<m>>, "core.py", Parsed(<<>>))} }
         /\ \E builtins \in {{}, {"sys", "builtins"}}, lookup \in Lookups :
              interp = [builtin_module_names |-> builtins, specs |-> (m :> lookup)]
    /\ pip = PartialDb
    /\ manifest = NoManifest
    /\ ops = <<>>
    /\ args = NoArgs
    /\ pc = "lib"

\* one call of is_standard_library
Classify ==
    /\ pc = "lib"
    /\ Calls < MaxOps
    /\ \E m \in ClassifyModules :
         ops' = Append(ops, [ op |-> "is_standard_library",
                              caller |-> "api",
                              module_name |-> m,
                              result |-> is_standard_library(project, interp, m) ])
    /\ UNCHANGED <<project, interp, pip, manifest, args, pc>>

ClassifySpec == ClassifyInit /\ [][Classify]_vars


\* ============================================================ properties

Last == ops[Len(ops)]

\* the records a step appends to ops
NewRecords == { ops'[k] : k \in (Len(ops) + 1)..Len(ops') }

Prefixes(s) == { SubSeq(s, 1, n) : n \in 0..Len(s) }

HasChar(s, chars) == \E i \in 1..Len(s) : CharAt(s, i) \in chars

\* the part of s before the first of `chars`, stated without a scan: the
\* prefix that holds none of them and is all of s or is followed by one
Before(s, chars) ==
    CHOOSE p \in Prefixes(s) :
        /\ ~HasChar(p, chars)
        /\ (p = s \/ CharAt(s, Len(p) + 1) \in chars)

\* ---------------------------------------------------------------- C1

\* C1: a module name that is not built-in, not local to the project, and
\* for which the runtime lookup finds nothing (no spec, or an exception) is
\* classified standard exactly when it is in the static fallback list.
C1_FallThroughToStaticList ==
    \A k \in DOMAIN ops :
        LET r == ops[k]
            lookup == find_spec(interp, r.module_name) IN
        ( /\ r.op = "is_standard_library"
          /\ r.module_name \notin interp.builtin_module_names
          /\ ~IsLocal(project, r.module_name)
          /\ lookup.kind \in {"none", "raise"} )
        => (r.result <=> r.module_name \in stdlib_modules)

\* ---------------------------------------------------------------- C10

\* the nodes of a tree, level by level: the root, its children, theirs, ...
ChildrenOf(nodes) ==
    UNION { { n.body[i] : i \in DOMAIN n.body } : n \in { x \in nodes : x.type = "Other" } }

RECURSIVE NodesWithin(_, _)
NodesWithin(nodes, depth) ==
    IF depth = 0 \/ nodes = {} THEN nodes
    ELSE nodes \cup NodesWithin(ChildrenOf(nodes), depth - 1)

TreeDepth == MaxStmts + 4

\* the dotted names that the absolute import statements of a body name
AbsoluteTargets(body) ==
    LET nodes == NodesWithin({ body[i] : i \in DOMAIN body }, TreeDepth) IN
    UNION { { n.names[i] : i \in DOMAIN n.names } : n \in { x \in nodes : x.type = "Import" } }
    \cup { n.module[1] : n \in { x \in nodes : /\ x.type = "ImportFrom"
                                                /\ x.level = 0
                                                /\ x.module # None } }

\* C10: on a file that parses, extract_imports_from_file returns exactly the
\* root segments (the text before the first dot) of the targets of the
\* absolute import and from-import statements anywhere in the file;
\* relative imports add nothing.
C10_ExtractsAbsoluteRoots ==
    \A k \in DOMAIN ops :
        (ops[k].op = "extract_imports_from_file" /\ ops[k].file.content.kind = "ast")
        => ops[k].result =
             { Before(t, {"."}) : t \in AbsoluteTargets(ops[k].file.content.body) }

\* a nested absolute import was found and a relative one left out
C10_Witness ==
    /\ ops # <<>>
    /\ Last.op = "extract_imports_from_file"
    /\ Last.file.content.kind = "ast"
    /\ Last.result = {"a"}
    /\ \E i \in DOMAIN Last.file.content.body :
         Last.file.content.body[i] = OtherNode(<< ImportNode(<<"a.b.c">>) >>)
    /\ \E i \in DOMAIN Last.file.content.body :
         Last.file.content.body[i] = ImportFromNode(Some("os.path"), 1)


\* ---------------------------------------------------------------- C2

ConstraintChars == {"=", "<", ">", "~", "!"}

\* the distribution name of a specifier line: the text before its constraint
SpecifierName(line) == Strip(Before(line, ConstraintChars))

Installs(r) == SelectSeq(r.calls, LAMBDA c : c.cmd = "install")

\* a successful generate_requirements directly followed by a check
GenerateThenCheck(k) ==
    /\ k + 1 \in DOMAIN ops
    /\ ops[k].op = "generate_requirements"
    /\ ops[k].result
    /\ ops[k + 1].op = "check_and_install_dependencies"

\* C2 as stated: a check run right after a successful generate, against the
\* same installed packages, finds no missing package and installs nothing.
C2_RoundTripFindsNothingMissing ==
    \A k \in DOMAIN ops :
        GenerateThenCheck(k)
        => /\ ops[k + 1].missing_packages = <<>>
           /\ Installs(ops[k + 1]) = <<>>

\* C2 amended: the missing set of such a check is exactly the packages that
\* generate listed without a version because they were not installed; when
\* generate found every detected package installed, the check finds nothing
\* missing, installs nothing and succeeds.
C2_RoundTripMissingAreTheUnpinned ==
    \A k \in DOMAIN ops :
        GenerateThenCheck(k)
        => /\ ops[k + 1].missing_packages = ops[k].not_installed_packages
           /\ ops[k].not_installed_packages = <<>>
                => /\ Installs(ops[k + 1]) = <<>>
                   /\ ops[k + 1].result

\* generate pinned several packages and the check after it found none missing
C2_Witness ==
    \E k \in DOMAIN ops :
        /\ GenerateThenCheck(k)
        /\ Len(ops[k].requirements) >= 2
        /\ ops[k].not_installed_packages = <<>>
        /\ ops[k + 1].packages = ops[k].requirements
        /\ ops[k + 1].missing_packages = <<>>
        /\ ops[k + 1].result

\* ---------------------------------------------------------------- C3

\* the distribution the alias table gives an import name
Distribution(m) ==
    IF \E e \in MODULE_TO_PACKAGE : e[1] = m
    THEN CHOOSE d \in { e[2] : e \in MODULE_TO_PACKAGE } : <<m, d>> \in MODULE_TO_PACKAGE
    ELSE m

\* the specifier lines of a manifest: neither blank nor comment
SpecifierLines(lines) ==
    SelectSeq(lines, LAMBDA l : Strip(l) # "" /\ ~StartsWith(Strip(l), "#"))

\* the manifest is the one the generate_requirements of record r wrote
WroteManifest(k) ==
    /\ ops[k].op = "generate_requirements"
    /\ ops[k].result
    /\ \A j \in DOMAIN ops : j > k => ops[j].op # "generate_requirements"

\* C3: in a manifest written by generate_requirements every detected
\* third-party import name appears under the distribution name the alias
\* table gives it (under itself when the table has no entry for it), and no
\* line is named by a key of the alias table, pinned or not.
C3_ManifestUsesDistributionNames ==
    \A k \in DOMAIN ops :
        WroteManifest(k)
        => LET written == SpecifierLines(manifest.lines) IN
           /\ manifest.exists
           /\ written = ops[k].requirements
           /\ { SpecifierName(written[i]) : i \in DOMAIN written }
                = { Distribution(m) : m \in ops[k].third_party }
           /\ \A i \in DOMAIN written : SpecifierName(written[i]) \notin AliasKeys

\* bs4 was detected and written pinned, another aliased import unpinned
C3_Witness ==
    \E k \in DOMAIN ops :
        /\ WroteManifest(k)
        /\ {"bs4", "sklearn"} \subseteq ops[k].third_party
        /\ \E i \in DOMAIN manifest.lines : manifest.lines[i] = "beautifulsoup4>=4.12.3"
        /\ \E i \in DOMAIN manifest.lines : manifest.lines[i] = "scikit-learn"

\* ---------------------------------------------------------------- C4

\* C4: generate_requirements returns false exactly when no file was analysed
\* or no third-party import was found, and then the manifest is left as it
\* was; a step changes the manifest only by a generate_requirements that
\* returns true.
C4_FailedGenerateLeavesManifest ==
    [][ /\ \A r \in NewRecords :
             r.op = "generate_requirements"
             => /\ r.result <=> (r.file_count # 0 /\ r.third_party # {})
                /\ ~r.result => manifest' = manifest
        /\ manifest' # manifest
             => \E r \in NewRecords : r.op = "generate_requirements" /\ r.result
      ]_vars

\* files were analysed, none imports a third-party name, and the
\* hand-written manifest is still there
C4_Witness ==
    /\ ops # <<>>
    /\ Last.op = "generate_requirements"
    /\ ~Last.result
    /\ Last.file_count > 0
    /\ Last.all_imports # {}
    /\ manifest = HandWritten


\* ---------------------------------------------------------------- C5

\* the installed version of a distribution, read off the database: the
\* database has an entry with a `Version:` line, and the first such line
\* has text after the colon
HasInstalledVersion(db, name) ==
    /\ name \in DOMAIN db
    /\ \E i \in DOMAIN db[name] :
         /\ StartsWith(db[name][i], "Version:")
         /\ \A j \in 1..(i - 1) : ~StartsWith(db[name][j], "Version:")
         /\ Strip(SubSeq(db[name][i], Len("Version:") + 1, Len(db[name][i]))) # ""

\* the indices of the manifest's entries: lines with text before any comment
EntryIndices(lines) ==
    { i \in DOMAIN lines : Strip(Before(lines[i], {"#"})) # "" }

Entry(lines, i) == Strip(Before(lines[i], {"#"}))

\* the k-th smallest of a set of indices
Nth(indices, k) ==
    CHOOSE i \in indices : Cardinality({ j \in indices : j < i }) = k - 1

\* seq lists f(i) for the indices i of `indices`, in increasing order
ListsInOrder(seq, indices, f(_)) ==
    /\ Len(seq) = Cardinality(indices)
    /\ \A k \in DOMAIN seq : seq[k] = f(Nth(indices, k))

MissingIndices(lines, db) ==
    { i \in EntryIndices(lines) :
        ~HasInstalledVersion(db, SpecifierName(Entry(lines, i))) }

CheckRecord(r) == r.op = "check_and_install_dependencies"
UpdateRecord(r) == r.op = "update_dependencies"

\* C5: of a check on an existing manifest, the missing set is exactly the
\* entries whose base name has no installed version; the result is success
\* if and only if nothing is missing, or auto-install is on and every
\* missing package's install succeeds; with auto-install off and something
\* missing it fails and installs nothing.
C5_CheckResult ==
    [][ \A r \in NewRecords :
          (CheckRecord(r) /\ manifest.exists)
          => LET lines == manifest.lines
                 missing == MissingIndices(lines, pip)
                 installs == Installs(r) IN
             /\ ListsInOrder(r.missing_packages, missing, LAMBDA i : Entry(lines, i))
             /\ r.result <=>
                  \/ missing = {}
                  \/ /\ r.auto_install
                     /\ Len(installs) = Cardinality(missing)
                     /\ \A k \in DOMAIN r.exits : r.exits[k] = 0
             /\ (~r.auto_install /\ missing # {}) => (~r.result /\ installs = <<>>)
             /\ r.auto_install => Len(r.exits) = Len(installs)
      ]_vars

\* a check that found one entry installed and one missing, installed the
\* missing one, and succeeded
C5_Witness ==
    /\ ops # <<>>
    /\ CheckRecord(Last)
    /\ Last.auto_install
    /\ Last.packages = <<"requests==2.31.0", "nonexistent-package-xyz">>
    /\ Last.missing_packages = <<"nonexistent-package-xyz">>
    /\ Last.exits = <<0>>
    /\ Last.result

\* ---------------------------------------------------------------- C6

\* C6: on a missing manifest, check and update return failure, run no
\* package-manager command, do not prompt, and leave the manifest missing.
C6_MissingManifestFails ==
    [][ \A r \in NewRecords :
          ((CheckRecord(r) \/ UpdateRecord(r)) /\ ~manifest.exists)
          => /\ ~r.result
             /\ r.calls = <<>>
             /\ ~r.prompted
             /\ ~manifest'.exists
             /\ pip' = pip
             /\ NewRecords = {r}
      ]_vars

\* an update was called with no manifest
C6_Witness ==
    /\ ops # <<>>
    /\ UpdateRecord(Last)
    /\ ~Last.found
    /\ ~Last.result
    /\ ~manifest.exists

\* ---------------------------------------------------------------- C7

Upgrades(r) == SelectSeq(r.calls, LAMBDA c : c.cmd = "upgrade")

\* C7: a check with auto-install runs exactly one install per missing
\* package, and an update exactly one upgrade per manifest entry, in
\* manifest order, whatever the exit status of the commands before.
C7_OneCommandPerPackage ==
    [][ \A r \in NewRecords :
          LET lines == manifest.lines IN
          /\ (CheckRecord(r) /\ manifest.exists /\ r.auto_install)
             => ListsInOrder(Installs(r), MissingIndices(lines, pip),
                             LAMBDA i : Call("install", Entry(lines, i)))
          /\ (UpdateRecord(r) /\ manifest.exists)
             => /\ ListsInOrder(Upgrades(r), EntryIndices(lines),
                                LAMBDA i : Call("upgrade", SpecifierName(Entry(lines, i))))
                /\ Len(r.exits) = Len(Upgrades(r))
      ]_vars

\* the first upgrade of an update failed and the second still ran
C7_Witness ==
    /\ ops # <<>>
    /\ \E k \in DOMAIN ops :
         /\ UpdateRecord(ops[k])
         /\ ops[k].exits = <<1, 0>>
         /\ ops[k].calls = << Call("upgrade", "requests"),
                              Call("upgrade", "nonexistent-package-xyz") >>

\* ---------------------------------------------------------------- C8

\* C8: an update in which some upgrade exited non-zero returns failure.
C8_FailedUpgradeFailsUpdate ==
    \A k \in DOMAIN ops :
        (UpdateRecord(ops[k]) /\ \E i \in DOMAIN ops[k].exits : ops[k].exits[i] # 0)
        => ~ops[k].result


\* ---------------------------------------------------------------- C9

OpNames(records) == [k \in DOMAIN records |-> records[k].op]

\* the operations the flags select, in the order main takes them
Selected(flags) ==
    (IF flags.generate THEN <<"generate_requirements">> ELSE <<>>)
    \o (IF flags.check THEN <<"check_and_install_dependencies">> ELSE <<>>)
    \o (IF flags.update THEN <<"update_dependencies">> ELSE <<>>)

NoFlag == ~(args.generate \/ args.check \/ args.update)

\* C9 as stated: when main is done, the operations that ran are exactly the
\* ones whose flag is set, each once, generate before check before update.
C9_OnlySelectedOperationsRun ==
    pc = "done" => OpNames(ops) = Selected(args)

\* the run of generate_requirements that update_dependencies makes itself,
\* after its upgrades, when the user confirms the prompt
RegenerateOfUpdate(k) ==
    /\ ops[k].op = "generate_requirements"
    /\ ops[k].caller = "update_dependencies"
    /\ k - 1 \in DOMAIN ops
    /\ UpdateRecord(ops[k - 1])
    /\ ops[k - 1].caller = "main"
    /\ ops[k - 1].prompted
    /\ ops[k - 1].result = ops[k].result

DispatchInOrder ==
    /\ OpNames(SelectSeq(ops, LAMBDA r : r.caller = "main")) = Selected(args)
    /\ \A k \in DOMAIN ops : ops[k].caller # "main" => RegenerateOfUpdate(k)

\* C9 amended: the operations main calls are exactly the ones whose flag is
\* set, each once, generate before check before update, whatever the
\* earlier ones returned; the only other operation that runs is the
\* generate_requirements that a selected update makes itself when the user
\* confirms its prompt.  With no flag set nothing runs and neither the
\* manifest nor the package manager is touched.
C9_DispatchOrder ==
    [][ /\ pc' = "done" => DispatchInOrder'
        /\ NoFlag => UNCHANGED <<manifest, pip, ops>>
      ]_vars

\* all three were selected, generate failed, check and update still ran
C9_Witness ==
    /\ pc = "done"
    /\ args.generate /\ args.check /\ args.update
    /\ Len(ops) = 3
    /\ ~ops[1].result
    /\ CheckRecord(ops[2])
    /\ UpdateRecord(ops[3])
    /\ ops[3].calls # <<>>


\* ---------------------------------------------------------------- C11

GenerateRecord(r) == r.op = "generate_requirements"

\* the analysed files that parse, and those that do not
ValidFiles(proj) == { f \in AnalysedFiles(proj) : f.content.kind = "ast" }
UnparsableFiles(proj) == { f \in AnalysedFiles(proj) : f.content.kind # "ast" }

\* the root names the import statements of the valid files name
ValidImports(proj) ==
    UNION { { Before(t, {"."}) : t \in AbsoluteTargets(f.content.body) } :
            f \in ValidFiles(proj) }

\* C11: a file that fails to parse adds no import and does not stop the
\* scan: generate_requirements counts every analysed file, the names it
\* classifies are exactly the imports of the files that parse, the
\* third-party names are those of them that are not standard, and it returns
\* as it would for the valid files alone (true exactly when one of their
\* imports is third-party).
C11_ParseErrorsAbsorbed ==
    \A k \in DOMAIN ops :
        (GenerateRecord(ops[k]) /\ UnparsableFiles(project) # {})
        => /\ ops[k].file_count = Cardinality(AnalysedFiles(project))
           /\ ops[k].all_imports = ValidImports(project)
           /\ ops[k].third_party =
                { m \in ValidImports(project) : ~is_standard_library(project, interp, m) }
           /\ ops[k].result <=> (ops[k].third_party # {})

\* a project of one file with a syntax error and one valid file: generate
\* returned true with the imports of the valid file
C11_Witness ==
    /\ project = {BrokenFile, AppFile}
    /\ ops # <<>>
    /\ GenerateRecord(Last)
    /\ Last.result
    /\ Last.file_count = 2
    /\ Last.all_imports = {"bs4", "os", "utils"}
    /\ "bs4" \in Last.third_party
    /\ manifest.exists


\* ---------------------------------------------------------------- C12

\* C12: a manifest written by generate_requirements never lists the same
\* distribution twice: no two of its specifier lines have the same base
\* distribution name, also when two detected import names map through the
\* alias table to one distribution.
C12_NoDistributionListedTwice ==
    \A k \in DOMAIN ops :
        WroteManifest(k)
        => LET written == SpecifierLines(manifest.lines) IN
           \A i, j \in DOMAIN written :
               SpecifierName(written[i]) = SpecifierName(written[j]) => i = j

=============================================================================
